---- MODULE Spec2Model ----
(***************************************************************************)
(* State-machine model of nmap2nb: the fingerprint engine                  *)
(* (fingerprint_engine.py), the rule store it reads (config_loader.py)     *)
(* and the NetBox reconciliation layer (netbox_manager.py).                *)
(*                                                                         *)
(* Encoding of Python values.  Opaque strings (vendor names, role slugs,   *)
(* device types) are TLA+ strings; None is the string None below, the      *)
(* absence of a key in a dict is Missing.  Strings the code inspects       *)
(* character by character (MAC addresses, regex patterns, certificate CN   *)
(* and page text) are sequences of one-character strings.                  *)
(***************************************************************************)
EXTENDS Integers, Sequences, FiniteSets, TLC

\* ---------------------------------------------------------------- bounds
MaxPorts == 2
MaxRules == 2
MaxCreated == 2
MaxHosts == 2

\* ------------------------------------------------------- Python encoding
None == "<None>"
Missing == "<missing>"

\* truth value of an opaque Python value (None and "" are falsy)
Truthy(v) == v # None /\ v # Missing /\ v # ""

\* truth value of a character string; <<None>> encodes a None in a str slot
NoneSeq == <<None>>
TruthySeq(s) == s # NoneSeq /\ s # <<>>

Range(s) == {s[i] : i \in 1..Len(s)}

\* str.upper() / str.lower(), character by character
UpperChar(c) ==
  CASE c = "a" -> "A" [] c = "c" -> "C" [] c = "d" -> "D" [] c = "e" -> "E"
    [] c = "m" -> "M" [] c = "k" -> "K" [] c = "o" -> "O" [] c = "s" -> "S"
    [] OTHER -> c

LowerChar(c) ==
  CASE c = "A" -> "a" [] c = "C" -> "c" [] c = "D" -> "d" [] c = "E" -> "e"
    [] c = "M" -> "m" [] c = "K" -> "k" [] c = "O" -> "o" [] c = "S" -> "s"
    [] OTHER -> c

Upper(s) == [i \in 1..Len(s) |-> UpperChar(s[i])]
Lower(s) == [i \in 1..Len(s) |-> LowerChar(s[i])]

\* s[:n]
Slice(s, n) == SubSeq(s, 1, IF Len(s) < n THEN Len(s) ELSE n)

Whitespace == {" "}

\* str.strip()
RECURSIVE LStrip(_)
LStrip(s) == IF s # <<>> /\ Head(s) \in Whitespace THEN LStrip(Tail(s)) ELSE s

RECURSIVE RStrip(_)
RStrip(s) ==
  IF s # <<>> /\ s[Len(s)] \in Whitespace THEN RStrip(SubSeq(s, 1, Len(s) - 1)) ELSE s

Strip(s) == RStrip(LStrip(s))

\* dict.get(key, default) on a dict encoded as a record with Missing fields
DictGet(d, k, default) == IF d[k] = Missing THEN default ELSE d[k]

\* ------------------------------------------------------------- constants
DEFAULT_VENDOR == "Unknown"
DEFAULT_ROLE_SLUG == "unknown"
DEFAULT_DEVICE_TYPE == "Unknown"

\* ------------------------------------------------------- the OUI table
PfxAcme == <<"A", "C", ":", "D", "E", ":", "4", "8">>
PfxBlank == <<"0", "0", ":", "0", "0", ":", "0", "C">>

\* oui.txt after line.strip() and line.split('\t'): one sequence of parts per
\* line; a comment line is the single part "#".
OuiFile ==
  << << <<"#">> >>,
     <<PfxAcme, "Acme Old">>,
     <<PfxAcme, "Acme">>,
     <<PfxBlank, "CIS", " ", "Cisco Systems">>,
     <<PfxBlank>> >>

\* vendor.strip() on the opaque vendor strings of OuiFile
StripVendor(v) == IF v = " " THEN "" ELSE v

\* load_oui: the dict as a function from the loaded prefixes to vendors;
\* a later line for the same prefix replaces an earlier one.
RECURSIVE LoadOui(_, _)
LoadOui(lines, dict) ==
  IF lines = <<>> THEN dict
  ELSE LET parts == Head(lines)
           upd(v) == [k \in DOMAIN dict \cup {parts[1]} |->
                        IF k = parts[1] THEN StripVendor(v) ELSE dict[k]]
       IN IF parts[1][1] = "#" THEN LoadOui(Tail(lines), dict)
          ELSE IF Len(parts) = 2 THEN LoadOui(Tail(lines), upd(parts[2]))
          ELSE IF Len(parts) >= 3 THEN LoadOui(Tail(lines), upd(parts[3]))
          ELSE LoadOui(Tail(lines), dict)

EmptyDict == [k \in {} |-> ""]

\* oui_dict.get(prefix)
OuiGet(dict, prefix) == IF prefix \in DOMAIN dict THEN dict[prefix] ELSE None

\* ------------------------------------------------- port_roles (mappings.yaml)
\* A port_roles value is a mapping with optional keys role and device_type,
\* or (malformed) a YAML scalar, on which .get raises AttributeError.
RoleEntry(r, dt) == [isdict |-> TRUE, role |-> r, device_type |-> dt]
ScalarEntry == [isdict |-> FALSE, role |-> Missing, device_type |-> Missing]

PortRolesYaml ==
  [k \in {"22", "23", "80", "8080", "9100"} |->
     CASE k = "22" -> RoleEntry("server", "Linux Host")
       [] k = "80" -> RoleEntry("web", "Unknown")
       [] k = "9100" -> RoleEntry("", "Printer")
       [] k = "23" -> RoleEntry(None, Missing)
       [] k = "8080" -> ScalarEntry]

\* 161 and 443 are not keys of PortRolesYaml
PortUniverse == {22, 23, 80, 161, 443, 8080, 9100}

\* ------------------------------------- fingerprint_patterns (mappings.yaml)
Rule(pat, v, dt) == [regex |-> pat, vendor |-> v, device_type |-> dt]

RuleMikrotik == Rule(<<"m", "k">>, "MikroTik", "RouterOS")
RuleUpper == Rule(<<"M", "k">>, "Cisco", "IOS")
RuleNoVendor == Rule(<<"k">>, Missing, "Switch")
RuleBadRegex == Rule(<<"(">>, "Bad", "Bad")
RuleSpace == Rule(<<" ">>, "Ubiquiti", "EdgeOS")

RuleUniverse == {RuleMikrotik, RuleUpper, RuleNoVendor, RuleBadRegex, RuleSpace}

\* sequences of at most n distinct elements of S
DistinctSeqs(S, n) ==
  UNION {{q \in [1..m -> S] : \A i, j \in 1..m : i # j => q[i] # q[j]} : m \in 0..n}

\* re.compile fails on an unbalanced parenthesis (re.error)
RegexValid(pat) == "(" \notin Range(pat)

\* re.search(pat, text) for a valid pattern of literal characters:
\* case-sensitive substring search (no flags are passed)
ReSearch(pat, text) ==
  \E i \in 1..(Len(text) - Len(pat) + 1) : SubSeq(text, i, i + Len(pat) - 1) = pat

NoMatch == [raised |-> FALSE, vendor |-> None, device_type |-> None]
RegexRaised == [raised |-> TRUE, vendor |-> None, device_type |-> None]

\* the loop of _regex_fingerprint over self.fingerprint_patterns
\* mutant: the last matching rule wins
RECURSIVE ScanPatternsLastWins(_, _)
ScanPatternsLastWins(rules, combined) ==
  IF rules = <<>> THEN NoMatch
  ELSE LET entry == rules[Len(rules)]
           rest == SubSeq(rules, 1, Len(rules) - 1)
       IN IF TruthySeq(entry.regex) /\ Truthy(entry.vendor) /\ Truthy(entry.device_type)
          THEN IF ~RegexValid(entry.regex) THEN RegexRaised
               ELSE IF ReSearch(entry.regex, combined)
                    THEN [raised |-> FALSE, vendor |-> entry.vendor,
                          device_type |-> entry.device_type]
                    ELSE ScanPatternsLastWins(rest, combined)
          ELSE ScanPatternsLastWins(rest, combined)

RECURSIVE ScanPatterns(_, _)
ScanPatterns(rules, combined) ==
  IF rules = <<>> THEN NoMatch
  ELSE LET entry == Head(rules)
           pat == IF entry.regex = <<Missing>> THEN NoneSeq ELSE entry.regex
           vend == DictGet(entry, "vendor", None)
           dt == DictGet(entry, "device_type", None)
       IN IF TruthySeq(pat) /\ Truthy(vend) /\ Truthy(dt)
          THEN IF ~RegexValid(pat) THEN RegexRaised
               ELSE IF ReSearch(pat, combined)
                    THEN [raised |-> FALSE, vendor |-> vend, device_type |-> dt]
                    ELSE ScanPatterns(Tail(rules), combined)
          ELSE ScanPatterns(Tail(rules), combined)

\* _regex_fingerprint(cert_cn, page_text)
RegexFingerprint(rules, cert_cn, page_text) ==
  LET combined == cert_cn \o <<" ">> \o page_text
  IN IF Strip(combined) = <<>> THEN NoMatch ELSE ScanPatterns(rules, combined)

\* ------------------------------------------------------ host observations
MacAcme ==
  <<"a", "c", ":", "d", "e", ":", "4", "8", ":", "0", "0", ":", "1", "1", ":", "2", "2">>
MacBlank ==
  <<"0", "0", ":", "0", "0", ":", "0", "C", ":", "0", "0", ":", "1", "1", ":", "2", "2">>
MacOther ==
  <<"0", "0", ":", "0", "0", ":", "0", "D", ":", "0", "0", ":", "1", "1", ":", "2", "2">>
NoMac == <<>>

Macs == {NoMac, MacAcme, MacBlank, MacOther}
OsGuesses == {None, "Linux 2.6"}

Hosts ==
  [ip_addr : {"10.0.0.5"}, mac_addr : Macs,
   open_ports : DistinctSeqs(PortUniverse, MaxPorts), os_guess : OsGuesses]

\* what the peer answers to the TLS handshake and to the HTTPS GET
FetchFailed == [ok |-> FALSE, text |-> <<>>]
CertAnswers == {FetchFailed, [ok |-> TRUE, text |-> <<"M", "k">>]}
PageAnswers == {FetchFailed, [ok |-> TRUE, text |-> <<"O", "S">>]}

\* no fetch attempted yet
NoPeer == [cert |-> FetchFailed, page |-> FetchFailed, cert_tries |-> 0, page_tries |-> 0]

\* the first try block of _fetch_cert_and_page: the lowercased commonName, or
\* "" when anything in it raised
CertCn(cert) == IF cert.ok THEN Lower(cert.text) ELSE <<>>

\* its second try block: the lowercased body, or "" when anything in it raised
PageText(page) == IF page.ok THEN Lower(page.text) ELSE <<>>

\* mutant: one try block around both fetches, left at the first exception
FetchInOneTryBlock(cert, page) ==
  IF cert.ok
  THEN [cert_cn |-> CertCn(cert), page_text |-> PageText(page),
        cert_tries |-> 1, page_tries |-> 1]
  ELSE [cert_cn |-> <<>>, page_text |-> <<>>, cert_tries |-> 1, page_tries |-> 0]

\* _fetch_cert_and_page against a peer answering cert and page: the pair it
\* returns and the attempts it made
FetchCertAndPageResult(cert, page) ==
  [cert_cn |-> CertCn(cert), page_text |-> PageText(page),
   cert_tries |-> 1, page_tries |-> 1]

\* ------------------------------------------------- steps of fingerprint_host
\* 1) OUI
OuiVendor(dict, mac, vendor) ==
  IF mac # NoMac
  THEN LET maybe_vendor == OuiGet(dict, Upper(Slice(mac, 8)))
       IN IF Truthy(maybe_vendor) THEN maybe_vendor ELSE vendor
  ELSE vendor

\* mutant: the loop has no break, the last keyed port wins
RECURSIVE LastMatchingPort(_, _)
LastMatchingPort(ports, roles) ==
  IF ports = <<>> THEN 0
  ELSE IF ToString(ports[Len(ports)]) \in DOMAIN roles THEN ports[Len(ports)]
  ELSE LastMatchingPort(SubSeq(ports, 1, Len(ports) - 1), roles)

\* 2) the first port of open_ports whose str() is a key of port_roles, 0 if none
RECURSIVE FirstMatchingPort(_, _)
FirstMatchingPort(ports, roles) ==
  IF ports = <<>> THEN 0
  ELSE IF ToString(Head(ports)) \in DOMAIN roles THEN Head(ports)
  ELSE FirstMatchingPort(Tail(ports), roles)

PortRaises(ports, roles) ==
  LET p == FirstMatchingPort(ports, roles)
  IN p # 0 /\ ~roles[ToString(p)].isdict

PortRole(ports, roles, role) ==
  LET p == FirstMatchingPort(ports, roles)
  IN IF p = 0 THEN role ELSE DictGet(roles[ToString(p)], "role", role)

PortDeviceType(ports, roles, dtype) ==
  LET p == FirstMatchingPort(ports, roles)
  IN IF p = 0 THEN dtype ELSE DictGet(roles[ToString(p)], "device_type", dtype)

\* mutant: the inspection runs whenever 443 is open
TlsGateAny443(ports, vend, dtype) == 443 \in Range(ports)

\* 3) the condition of the certificate/page inspection
TlsGate(ports, vend, dtype) ==
  443 \in Range(ports) /\ (vend = DEFAULT_VENDOR \/ dtype = DEFAULT_DEVICE_TYPE)

\* mutant: a fingerprint vendor overwrites the OUI vendor
TlsVendorOverwrite(vend, v) == IF Truthy(v) THEN v ELSE vend

TlsVendor(vend, v) == IF Truthy(v) /\ vend = DEFAULT_VENDOR THEN v ELSE vend

\* mutant: a fingerprint device_type overwrites the port rule's
TlsDeviceTypeOverwrite(dtype, dt) == IF Truthy(dt) THEN dt ELSE dtype

TlsDeviceType(dtype, dt) ==
  IF Truthy(dt) /\ dtype = DEFAULT_DEVICE_TYPE THEN dt ELSE dtype

\* mutant: the OS guess fills in a vendor that is still the default
OsGuessVendorFill(vend, os) == IF vend = DEFAULT_VENDOR /\ Truthy(os) THEN os ELSE vend

\* 4) OS guess: lower_os is computed and dropped, vendor is left as it is
OsGuessVendor(vend, os) == vend

\* ------------------------------------------------------- the NetBox store
\* the slug ensure_platform derives: lower(), ' ' -> '-', '.' and '(' removed
PlatformSlug(name) ==
  CASE name = "Linux 2.6" -> "linux-26"
    [] name = "Unknown" -> "unknown"
    [] OTHER -> name

\* the slug the other ensure operations derive: lower(), ' ' -> '-'
NameSlug(name) ==
  CASE name = "Linux Host" -> "linux-host"
    [] name = "Acme" -> "acme"
    [] name = "Unknown" -> "unknown"
    [] name = "Lab" -> "lab"
    [] OTHER -> name

\* str.capitalize() on a role slug
Capitalize(slug) ==
  CASE slug = "server" -> "Server"
    [] slug = "unknown" -> "Unknown"
    [] OTHER -> slug

\* protocol.upper()
ProtocolUpper(protocol) == IF protocol = "tcp" THEN "TCP" ELSE protocol

\* f"{protocol.upper()}/{port}"
ServiceName(protocol, port) == <<ProtocolUpper(protocol), "/", ToString(port)>>

\* NetBox as main() finds it after earlier runs: the site of SITE_NAME, two
\* platforms (one with a slug entered by hand), the tenant, a manufacturer, a
\* device type, two device roles and an unassigned IP address
BaseStore ==
  [sites |-> {[id |-> 1, name |-> "HQ"]},
   platforms |-> {[id |-> 2, name |-> "Linux 2.6", slug |-> "linux"],
                  [id |-> 3, name |-> "Unknown", slug |-> "unknown"]},
   tenants |-> {[id |-> 4, name |-> "Lab", slug |-> "lab"]},
   manufacturers |-> {[id |-> 5, name |-> "Acme", slug |-> "acme"]},
   device_types |-> {[id |-> 6, model |-> "Linux Host", slug |-> "linux-host",
                      manufacturer |-> 5]},
   device_roles |-> {[id |-> 7, name |-> "Server", slug |-> "server"],
                     [id |-> 8, name |-> "Unknown", slug |-> "unknown"]},
   devices |-> {},
   ip_addresses |-> {[id |-> 9, address |-> "10.0.0.5/32",
                      assigned_object_type |-> None, assigned_object_id |-> 0]},
   services |-> {},
   interfaces |-> {},
   prefixes |-> {}]

\* NetBox as main() finds it on a first run: nothing but the site of SITE_NAME
FreshStore ==
  [sites |-> {[id |-> 1, name |-> "HQ"]},
   platforms |-> {},
   tenants |-> {},
   manufacturers |-> {},
   device_types |-> {},
   device_roles |-> {},
   devices |-> {},
   ip_addresses |-> {},
   services |-> {},
   interfaces |-> {},
   prefixes |-> {}]

InitialStores == {BaseStore, FreshStore}

Endpoints == DOMAIN BaseStore

Ids(objs) == {o.id : o \in objs}

FirstFreeId == 1 + Cardinality(UNION {Ids(BaseStore[e]) : e \in Endpoints})

\* a None object reference / an unset foreign key
NoId == 0

\* arguments the calls are made with
PlatformNames == {"Linux 2.6", "Unknown"}
TenantNames == {"Lab"}
VendorNames == {"Acme"}
ModelNames == {"Linux Host"}
RoleSlugs == {"server", "unknown"}
DeviceNames == {"AC:DE:48:00:11:22"}
IpStrings == {"10.0.0.5/32"}
ServicePorts == {22, 443}
IfaceMacs == {NoMac, MacAcme, Upper(MacAcme)}

\* the lookups by natural key (pynetbox .get / .filter)
LookupByName(objs, name) == {o \in objs : o.name = name}

\* mutant: the lookup by name never finds the device
LookupDeviceNever(store, name) == {}

LookupDevice(store, name) == LookupByName(store.devices, name)

LookupDeviceType(store, model, manufacturer_id) ==
  {o \in store.device_types : o.model = model /\ o.manufacturer = manufacturer_id}

LookupRole(store, slug) == {o \in store.device_roles : o.slug = slug}

LookupIp(store, address) == {o \in store.ip_addresses : o.address = address}

LookupService(store, device_id, name) ==
  {o \in store.services : o.device = device_id /\ o.name = name}

LookupInterface(store, device_id, name) ==
  {o \in store.interfaces : o.device = device_id /\ o.name = name}

\* the object a lookup hands back (existing[0]); the lowest id is listed first
LookupPrefix(store, prefix) == {o \in store.prefixes : o.prefix = prefix}

First(found) == CHOOSE o \in found : \A q \in found : o.id <= q.id

Replace(objs, old, new) == (objs \ {old}) \cup {new}

\* ------------------------------------------------------------------ state
VARIABLES
  oui_dict,              \* FingerprintEngine.oui_dict
  port_roles,            \* FingerprintEngine.port_roles
  fingerprint_patterns,  \* FingerprintEngine.fingerprint_patterns
  pc,                    \* position inside fingerprint_host
  host_data,             \* the argument of the running call
  vendor, role_slug, device_type,   \* its locals
  cn, page_txt,          \* what _fetch_cert_and_page returned
  matched,               \* what _regex_fingerprint returned (v2, dt2)
  fetch_calls,           \* calls of _fetch_cert_and_page made by the running call
  peer,                  \* what the peer answered to them, and the attempts made
  fp,                    \* the dict fingerprint_host returned
  nb,                    \* the objects held by NetBox, one set per endpoint
  next_id,               \* the id NetBox gives to the next created object
  ret,                   \* what the last NetBoxManager call returned
  nb_log,                \* the last message a NetBoxManager call logged
  call,                  \* the last NetBoxManager call made: method and arguments
  mpc,                   \* position inside main()
  loc                    \* the locals of main()

vars ==
  <<oui_dict, port_roles, fingerprint_patterns, pc, host_data, vendor, role_slug,
    device_type, cn, page_txt, matched, fetch_calls, peer, fp, nb, next_id, ret, nb_log,
    call, mpc, loc>>

engine_vars ==
  <<oui_dict, port_roles, fingerprint_patterns, pc, host_data, vendor, role_slug,
    device_type, cn, page_txt, matched, fetch_calls, peer, fp>>

nb_vars == <<nb, next_id, ret, nb_log>>

main_vars == <<mpc, loc>>

\* everything outside the fingerprint engine
outer_vars == <<nb_vars, call, main_vars>>

rule_store == <<oui_dict, port_roles, fingerprint_patterns>>

NoHost == [ip_addr |-> "", mac_addr |-> NoMac, open_ports |-> <<>>, os_guess |-> None]
NoFp == [vendor |-> None, role_slug |-> None, device_type |-> None]

\* the call record of a method that was given none of the compared arguments
NoCall ==
  [op |-> "none", update |-> FALSE, obj |-> NoId, role_id |-> NoId,
   device_type_id |-> NoId, platform_id |-> NoId, tenant_id |-> NoId,
   mac_address |-> NoMac, port |-> 0, protocol |-> "", ip_id |-> NoId]

\* the locals of main() before the host loop is entered
NoLoc ==
  [update_existing |-> TRUE, todo |-> <<>>, host |-> NoHost,
   platform_obj |-> NoId, tenant_obj |-> NoId, mfr_obj |-> NoId,
   dev_type_obj |-> NoId, role_obj |-> NoId, device_obj |-> NoId,
   ip_obj |-> NoId, iface_obj |-> NoId, port_idx |-> 0]

\* ConfigLoader.load_all followed by FingerprintEngine.__init__
Init ==
  /\ oui_dict = LoadOui(OuiFile, EmptyDict)
  /\ port_roles = PortRolesYaml
  /\ fingerprint_patterns \in DistinctSeqs(RuleUniverse, MaxRules)
  /\ pc = "idle"
  /\ host_data = NoHost
  /\ vendor = DEFAULT_VENDOR
  /\ role_slug = DEFAULT_ROLE_SLUG
  /\ device_type = DEFAULT_DEVICE_TYPE
  /\ cn = <<>>
  /\ page_txt = <<>>
  /\ matched = NoMatch
  /\ fetch_calls = 0
  /\ peer = NoPeer
  /\ fp = NoFp
  /\ nb = BaseStore
  /\ next_id = FirstFreeId
  /\ ret = NoId
  /\ nb_log = "none"
  /\ call = NoCall
  /\ mpc = "off"
  /\ loc = NoLoc

\* fingerprint_host is entered with one observation; locals take the defaults
Begin ==
  /\ pc = "idle"
  /\ host_data' \in Hosts
  /\ vendor' = DEFAULT_VENDOR
  /\ role_slug' = DEFAULT_ROLE_SLUG
  /\ device_type' = DEFAULT_DEVICE_TYPE
  /\ cn' = <<>>
  /\ page_txt' = <<>>
  /\ matched' = NoMatch
  /\ fetch_calls' = 0
  /\ peer' = NoPeer
  /\ fp' = NoFp
  /\ pc' = "oui"
  /\ UNCHANGED <<rule_store, outer_vars>>

OuiStep ==
  /\ pc = "oui"
  /\ vendor' = OuiVendor(oui_dict, host_data.mac_addr, vendor)
  /\ pc' = "ports"
  /\ UNCHANGED <<outer_vars, rule_store, host_data, role_slug, device_type, cn, page_txt,
                 matched, fetch_calls, peer, fp>>

PortStep ==
  /\ pc = "ports"
  /\ IF PortRaises(host_data.open_ports, port_roles)
     THEN /\ pc' = "raised"
          /\ UNCHANGED <<role_slug, device_type>>
     ELSE /\ role_slug' = PortRole(host_data.open_ports, port_roles, role_slug)
          /\ device_type' = PortDeviceType(host_data.open_ports, port_roles, device_type)
          /\ pc' = "tls"
  /\ UNCHANGED <<outer_vars, rule_store, host_data, vendor, cn, page_txt, matched,
                 fetch_calls, peer, fp>>

\* _fetch_cert_and_page: both fetches are tried, a failed one leaves ""
FetchCertAndPage ==
  /\ pc = "tls"
  /\ TlsGate(host_data.open_ports, vendor, device_type)
  /\ \E cert \in CertAnswers, page \in PageAnswers :
       LET r == FetchCertAndPageResult(cert, page)
       IN /\ cn' = r.cert_cn
          /\ page_txt' = r.page_text
          /\ peer' = [cert |-> cert, page |-> page,
                      cert_tries |-> peer.cert_tries + r.cert_tries,
                      page_tries |-> peer.page_tries + r.page_tries]
  /\ fetch_calls' = fetch_calls + 1
  /\ pc' = "regex"
  /\ UNCHANGED <<outer_vars, rule_store, host_data, vendor, role_slug, device_type, matched, fp>>

SkipTls ==
  /\ pc = "tls"
  /\ ~TlsGate(host_data.open_ports, vendor, device_type)
  /\ pc' = "os"
  /\ UNCHANGED <<outer_vars, rule_store, host_data, vendor, role_slug, device_type, cn, page_txt,
                 matched, fetch_calls, peer, fp>>

RegexStep ==
  /\ pc = "regex"
  /\ LET r == RegexFingerprint(fingerprint_patterns, cn, page_txt)
     IN IF r.raised
        THEN /\ pc' = "raised"
             /\ UNCHANGED <<vendor, device_type, matched>>
        ELSE /\ matched' = r
             /\ vendor' = TlsVendor(vendor, r.vendor)
             /\ device_type' = TlsDeviceType(device_type, r.device_type)
             /\ pc' = "os"
  /\ UNCHANGED <<outer_vars, rule_store, host_data, role_slug, cn, page_txt, fetch_calls,
                 peer, fp>>

OsStep ==
  /\ pc = "os"
  /\ vendor' = OsGuessVendor(vendor, host_data.os_guess)
  /\ pc' = "ret"
  /\ UNCHANGED <<outer_vars, rule_store, host_data, role_slug, device_type, cn, page_txt,
                 matched, fetch_calls, peer, fp>>

Return ==
  /\ pc = "ret"
  /\ fp' = [vendor |-> vendor, role_slug |-> role_slug, device_type |-> device_type]
  /\ pc' = "done"
  /\ UNCHANGED <<outer_vars, rule_store, host_data, vendor, role_slug, device_type, cn, page_txt,
                 matched, fetch_calls, peer>>

\* the caller's loop goes on to its next host; the locals of the call are gone
NextHost ==
  /\ pc = "done"
  /\ pc' = "idle"
  /\ host_data' = NoHost
  /\ vendor' = DEFAULT_VENDOR
  /\ role_slug' = DEFAULT_ROLE_SLUG
  /\ device_type' = DEFAULT_DEVICE_TYPE
  /\ cn' = <<>>
  /\ page_txt' = <<>>
  /\ matched' = NoMatch
  /\ fetch_calls' = 0
  /\ peer' = NoPeer
  /\ fp' = NoFp
  /\ UNCHANGED <<rule_store, outer_vars>>

Next ==
  \/ Begin
  \/ OuiStep
  \/ PortStep
  \/ FetchCertAndPage
  \/ SkipTls
  \/ RegexStep
  \/ OsStep
  \/ Return
  \/ NextHost

Spec == Init /\ [][Next]_vars

\* ------------------------------------------------ NetBoxManager operations
\* a client calling in any order is cut off after MaxCreated objects; main()
\* creates no more than its loop over the scanned hosts asks for
CanCreate == mpc # "off" \/ next_id < FirstFreeId + MaxCreated

\* endpoint.create(data) answered with the new object
Create(endpoint, obj) ==
  /\ CanCreate
  /\ nb' = [nb EXCEPT ![endpoint] = @ \cup {obj}]
  /\ next_id' = next_id + 1
  /\ ret' = obj.id
  /\ nb_log' = "created"

\* endpoint.create(data) answered with a pynetbox.RequestError
CreateFailed ==
  /\ ret' = NoId
  /\ nb_log' = "create_failed"
  /\ UNCHANGED <<nb, next_id>>

\* the object was found and nothing is to be changed
Found(obj) ==
  /\ ret' = obj.id
  /\ nb_log' = "found"
  /\ UNCHANGED <<nb, next_id>>

\* obj.update(changes), answered with success (ok) or a pynetbox.RequestError
Update(endpoint, old, new, ok) ==
  /\ UNCHANGED next_id
  /\ IF ok
     THEN nb' = [nb EXCEPT ![endpoint] = Replace(@, old, new)] /\ nb_log' = "updated"
     ELSE UNCHANGED nb /\ nb_log' = "update_failed"

ReturnNone ==
  /\ ret' = NoId
  /\ nb_log' = "none"
  /\ UNCHANGED <<nb, next_id>>

\* create(data): NetBox answers with the new object or with a RequestError
TryCreate(endpoint, obj) ==
  \E ok \in BOOLEAN : IF ok THEN Create(endpoint, obj) ELSE CreateFailed

\* update(changes): NetBox applies the changes or answers with a RequestError
TryUpdate(endpoint, old, new) == \E ok \in BOOLEAN : Update(endpoint, old, new, ok)

\* an ensure operation returns the object it found, updated or not
UpdateFound(endpoint, old, new) == TryUpdate(endpoint, old, new) /\ ret' = old.id

\* assign_ip_to_interface and set_primary_ip4 return nothing
UpdateOnly(endpoint, old, new) == TryUpdate(endpoint, old, new) /\ ret' = NoId

EnsurePlatformCall(platform_name, update) ==
  LET found == LookupByName(nb.platforms, platform_name)
      slug_val == PlatformSlug(platform_name)
  IN IF ~Truthy(platform_name) THEN ReturnNone
     ELSE IF found # {}
     THEN LET platform_obj == First(found)
          IN IF update /\ platform_obj.slug # slug_val
             THEN UpdateFound("platforms", platform_obj,
                              [platform_obj EXCEPT !.slug = slug_val])
             ELSE Found(platform_obj)
     ELSE TryCreate("platforms",
                    [id |-> next_id, name |-> platform_name, slug |-> slug_val])

\* update is accepted and not read (lines 173-175)
EnsureTenantCall(name, update) ==
  LET found == LookupByName(nb.tenants, name)
  IN IF found # {} THEN Found(First(found))
     ELSE TryCreate("tenants",
                    [id |-> next_id, name |-> name, slug |-> NameSlug(name)])

\* update is accepted and not read (lines 195-197)
EnsureManufacturerCall(name, update) ==
  LET found == LookupByName(nb.manufacturers, name)
  IN IF found # {} THEN Found(First(found))
     ELSE TryCreate("manufacturers",
                    [id |-> next_id, name |-> name, slug |-> NameSlug(name)])

\* update is accepted and not read (lines 226-228)
EnsureDeviceTypeCall(model, manufacturer_id, update) ==
  LET found == LookupDeviceType(nb, model, manufacturer_id)
  IN IF manufacturer_id = NoId THEN ReturnNone
     ELSE IF found # {} THEN Found(First(found))
     ELSE TryCreate("device_types",
                    [id |-> next_id, model |-> model, slug |-> NameSlug(model),
                     manufacturer |-> manufacturer_id])

\* update is accepted and not read (lines 253-255)
EnsureDeviceRoleCall(slug, update) ==
  LET found == LookupRole(nb, slug)
  IN IF found # {} THEN Found(First(found))
     ELSE TryCreate("device_roles",
                    [id |-> next_id, name |-> Capitalize(slug), slug |-> slug])

\* the fields ensure_device writes into an existing device when update is set
DeviceChanges(existing, role_id, device_type_id, platform_id, tenant_id) ==
  [existing EXCEPT
     !.role = IF role_id # NoId /\ existing.role # NoId /\ existing.role # role_id
              THEN role_id ELSE @,
     !.device_type = IF /\ device_type_id # NoId
                        /\ existing.device_type # NoId
                        /\ existing.device_type # device_type_id
                     THEN device_type_id ELSE @,
     !.platform = IF platform_id # NoId /\ existing.platform # platform_id
                  THEN platform_id ELSE @,
     !.tenant = IF tenant_id # NoId /\ existing.tenant # tenant_id
                THEN tenant_id ELSE @]

EnsureDeviceCall(name, role_id, device_type_id, site_id, platform_id, tenant_id, update) ==
  LET found == LookupDevice(nb, name)
  IN IF found # {}
     THEN LET existing == First(found)
              changed == DeviceChanges(existing, role_id, device_type_id,
                                       platform_id, tenant_id)
          IN IF update /\ changed # existing
             THEN UpdateFound("devices", existing, changed)
             ELSE Found(existing)
     ELSE TryCreate("devices",
                    [id |-> next_id, name |-> name, role |-> role_id,
                     device_type |-> device_type_id, site |-> site_id,
                     tenant |-> tenant_id, platform |-> platform_id,
                     primary_ip4 |-> NoId])

\* update is accepted and not read (lines 318-320)
EnsureIpCall(ip_str, update) ==
  LET found == LookupIp(nb, ip_str)
  IN IF found # {} THEN Found(First(found))
     ELSE TryCreate("ip_addresses",
                    [id |-> next_id, address |-> ip_str,
                     assigned_object_type |-> None,
                     assigned_object_id |-> NoId])

\* the fields ensure_service writes into an existing service when update is set
ServiceChanges(service, ip_id, port, protocol) ==
  [service EXCEPT
     !.ports = IF service.ports # <<port>> THEN <<port>> ELSE @,
     !.protocol = IF service.protocol # protocol THEN protocol ELSE @,
     !.ipaddresses = IF ip_id # NoId /\ ip_id \notin service.ipaddresses
                     THEN @ \cup {ip_id} ELSE @]

EnsureServiceCall(device_id, ip_id, port, protocol, update) ==
  LET svc_name == ServiceName(protocol, port)
      found == LookupService(nb, device_id, svc_name)
  IN IF device_id = NoId THEN ReturnNone
     ELSE IF found # {}
     THEN LET service == First(found)
              changed == ServiceChanges(service, ip_id, port, protocol)
          IN IF update /\ changed # service
             THEN UpdateFound("services", service, changed)
             ELSE Found(service)
     ELSE TryCreate("services",
                    [id |-> next_id, device |-> device_id, name |-> svc_name,
                     ports |-> <<port>>, protocol |-> protocol,
                     ipaddresses |-> IF ip_id # NoId THEN {ip_id} ELSE {}])

\* the field ensure_interface writes into an existing interface when update is set
InterfaceChanges(iface, mac_address) ==
  [iface EXCEPT
     !.mac_address = IF /\ TruthySeq(mac_address)
                        /\ TruthySeq(iface.mac_address)
                        /\ Lower(iface.mac_address) # Lower(mac_address)
                     THEN mac_address ELSE @]

EnsureInterfaceCall(device_id, if_name, mac_address, update) ==
  LET found == LookupInterface(nb, device_id, if_name)
  IN IF found # {}
     THEN LET iface == First(found)
              changed == InterfaceChanges(iface, mac_address)
          IN IF update /\ changed # iface
             THEN UpdateFound("interfaces", iface, changed)
             ELSE Found(iface)
     ELSE TryCreate("interfaces",
                    [id |-> next_id, device |-> device_id, name |-> if_name,
                     type |-> "1000base-t",
                     mac_address |-> IF TruthySeq(mac_address)
                                     THEN mac_address ELSE NoMac])

\* the prefix as ensure_prefix leaves it when update and site_id are set
PrefixChanges(existing, site_id) ==
  IF existing.scope_type # "dcim.site" \/ existing.scope_id # site_id
  THEN [existing EXCEPT !.scope_type = "dcim.site", !.scope_id = site_id]
  ELSE existing

EnsurePrefixCall(prefix_str, site_id, update) ==
  LET found == LookupPrefix(nb, prefix_str)
  IN IF found # {}
     THEN LET existing == First(found)
              changed == PrefixChanges(existing, site_id)
          IN IF update /\ site_id # NoId /\ changed # existing
             THEN UpdateFound("prefixes", existing, changed)
             ELSE Found(existing)
     ELSE TryCreate("prefixes",
                    [id |-> next_id, prefix |-> prefix_str, site |-> site_id,
                     scope_type |-> None, scope_id |-> NoId])

AssignIpToInterfaceCall(ip_id, iface_id) ==
  IF ip_id = NoId \/ iface_id = NoId THEN ReturnNone
  ELSE LET ip_obj == CHOOSE o \in nb.ip_addresses : o.id = ip_id
       IN IF ip_obj.assigned_object_id = NoId
          THEN UpdateOnly("ip_addresses", ip_obj,
                          [ip_obj EXCEPT !.assigned_object_type = "dcim.interface",
                                         !.assigned_object_id = iface_id])
          ELSE ReturnNone

SetPrimaryIp4Call(device_id, ip_id) ==
  IF device_id # NoId /\ ip_id # NoId
  THEN LET device_obj == CHOOSE o \in nb.devices : o.id = device_id
       IN IF device_obj.primary_ip4 # ip_id
          THEN UpdateOnly("devices", device_obj,
                          [device_obj EXCEPT !.primary_ip4 = ip_id])
          ELSE ReturnNone
  ELSE ReturnNone

\* ---------------------------- NetBoxManager called in any order by a client
Called(op, update) == call' = [NoCall EXCEPT !.op = op, !.update = update]

EnsurePlatform ==
  /\ \E platform_name \in PlatformNames \cup {""}, update \in BOOLEAN :
       /\ EnsurePlatformCall(platform_name, update)
       /\ Called("ensure_platform", update)
  /\ UNCHANGED <<engine_vars, main_vars>>

EnsureTenant ==
  /\ \E name \in TenantNames :
       /\ EnsureTenantCall(name, TRUE)
       /\ Called("ensure_tenant", TRUE)
  /\ UNCHANGED <<engine_vars, main_vars>>

EnsureManufacturer ==
  /\ \E name \in VendorNames :
       /\ EnsureManufacturerCall(name, TRUE)
       /\ Called("ensure_manufacturer", TRUE)
  /\ UNCHANGED <<engine_vars, main_vars>>

EnsureDeviceType ==
  /\ \E model \in ModelNames, manufacturer_id \in Ids(nb.manufacturers) \cup {NoId} :
       /\ EnsureDeviceTypeCall(model, manufacturer_id, TRUE)
       /\ Called("ensure_device_type", TRUE)
  /\ UNCHANGED <<engine_vars, main_vars>>

EnsureDeviceRole ==
  /\ \E slug \in RoleSlugs :
       /\ EnsureDeviceRoleCall(slug, TRUE)
       /\ Called("ensure_device_role", TRUE)
  /\ UNCHANGED <<engine_vars, main_vars>>

EnsureDevice ==
  /\ \E name \in DeviceNames, role_id \in Ids(nb.device_roles),
        device_type_id \in Ids(nb.device_types), site_id \in Ids(nb.sites),
        platform_id \in Ids(nb.platforms), tenant_id \in Ids(nb.tenants),
        update \in BOOLEAN :
       /\ EnsureDeviceCall(name, role_id, device_type_id, site_id, platform_id,
                           tenant_id, update)
       /\ call' = [NoCall EXCEPT !.op = "ensure_device", !.update = update,
                                 !.obj = ret', !.role_id = role_id,
                                 !.device_type_id = device_type_id,
                                 !.platform_id = platform_id,
                                 !.tenant_id = tenant_id]
  /\ UNCHANGED <<engine_vars, main_vars>>

EnsureIp ==
  /\ \E ip_str \in IpStrings :
       /\ EnsureIpCall(ip_str, TRUE)
       /\ Called("ensure_ip", TRUE)
  /\ UNCHANGED <<engine_vars, main_vars>>

EnsureService ==
  /\ \E device_id \in Ids(nb.devices) \cup {NoId},
        ip_id \in Ids(nb.ip_addresses) \cup {NoId},
        port \in ServicePorts, protocol \in {"tcp"}, update \in BOOLEAN :
       /\ EnsureServiceCall(device_id, ip_id, port, protocol, update)
       /\ call' = [NoCall EXCEPT !.op = "ensure_service", !.update = update,
                                 !.obj = ret', !.port = port,
                                 !.protocol = protocol, !.ip_id = ip_id]
  /\ UNCHANGED <<engine_vars, main_vars>>

EnsureInterface ==
  /\ \E device_id \in Ids(nb.devices), if_name \in {"eth0"},
        mac_address \in IfaceMacs, update \in BOOLEAN :
       /\ EnsureInterfaceCall(device_id, if_name, mac_address, update)
       /\ call' = [NoCall EXCEPT !.op = "ensure_interface", !.update = update,
                                 !.obj = ret', !.mac_address = mac_address]
  /\ UNCHANGED <<engine_vars, main_vars>>

AssignIpToInterface ==
  /\ \E ip_id \in Ids(nb.ip_addresses) \cup {NoId},
        iface_id \in Ids(nb.interfaces) \cup {NoId} :
       AssignIpToInterfaceCall(ip_id, iface_id)
  /\ Called("assign_ip_to_interface", FALSE)
  /\ UNCHANGED <<engine_vars, main_vars>>

SetPrimaryIp4 ==
  /\ \E device_id \in Ids(nb.devices) \cup {NoId},
        ip_id \in Ids(nb.ip_addresses) \cup {NoId} :
       SetPrimaryIp4Call(device_id, ip_id)
  /\ Called("set_primary_ip4", FALSE)
  /\ UNCHANGED <<engine_vars, main_vars>>

\* NetBoxManager.__init__ against a NetBox of InitialStores; no host is being
\* fingerprinted
InitNB ==
  /\ oui_dict = LoadOui(OuiFile, EmptyDict)
  /\ port_roles = PortRolesYaml
  /\ fingerprint_patterns = <<>>
  /\ pc = "idle"
  /\ host_data = NoHost
  /\ vendor = DEFAULT_VENDOR
  /\ role_slug = DEFAULT_ROLE_SLUG
  /\ device_type = DEFAULT_DEVICE_TYPE
  /\ cn = <<>>
  /\ page_txt = <<>>
  /\ matched = NoMatch
  /\ fetch_calls = 0
  /\ peer = NoPeer
  /\ fp = NoFp
  /\ nb \in InitialStores
  /\ next_id = FirstFreeId
  /\ ret = NoId
  /\ nb_log = "none"
  /\ call = NoCall
  /\ mpc = "off"
  /\ loc = NoLoc

NextNB ==
  \/ EnsurePlatform
  \/ EnsureTenant
  \/ EnsureManufacturer
  \/ EnsureDeviceType
  \/ EnsureDeviceRole
  \/ EnsureDevice
  \/ EnsureIp
  \/ EnsureService
  \/ EnsureInterface
  \/ AssignIpToInterface
  \/ SetPrimaryIp4

SpecNB == InitNB /\ [][NextNB]_vars

\* ------------------------------------------------------------------ main()
\* hosts scan_subnet reports: a Linux server with a known MAC, an HTTPS device
\* without MAC or OS guess, and a host whose first open port has a scalar
\* port_roles entry
HostLinux ==
  [ip_addr |-> "10.0.0.5", mac_addr |-> MacAcme, open_ports |-> <<22>>,
   os_guess |-> "Linux 2.6"]
HostTls ==
  [ip_addr |-> "10.0.0.6", mac_addr |-> NoMac, open_ports |-> <<443>>,
   os_guess |-> None]
HostScalar ==
  [ip_addr |-> "10.0.0.7", mac_addr |-> NoMac, open_ports |-> <<8080>>,
   os_guess |-> None]
MainHosts == {HostLinux, HostTls, HostScalar}

\* the MAC address as main() passes it on for a device name
MacString(mac) ==
  CASE mac = MacAcme -> "ac:de:48:00:11:22"
    [] mac = MacBlank -> "00:00:0C:00:11:22"
    [] mac = MacOther -> "00:00:0D:00:11:22"
    [] OTHER -> ""

\* hostname = mac_addr or ip_addr
HostName(host_info) ==
  IF TruthySeq(host_info.mac_addr) THEN MacString(host_info.mac_addr)
  ELSE host_info.ip_addr

\* f"{ip_addr}/32"
IpStr(ip_addr) ==
  CASE ip_addr = "10.0.0.5" -> "10.0.0.5/32"
    [] ip_addr = "10.0.0.6" -> "10.0.0.6/32"
    [] ip_addr = "10.0.0.7" -> "10.0.0.7/32"
    [] OTHER -> ip_addr

\* platform = host_info["os_guess"] or "Unknown"
PlatformOf(host_info) ==
  IF Truthy(host_info.os_guess) THEN host_info.os_guess ELSE "Unknown"

SiteId == (CHOOSE o \in BaseStore.sites : o.name = "HQ").id

\* main() up to the subnet loop (lines 27-46): the rule store is loaded, the site
\* is found, SUBNETS names one subnet and scan_subnet will report loc.todo
InitMain ==
  /\ oui_dict = LoadOui(OuiFile, EmptyDict)
  /\ port_roles = PortRolesYaml
  /\ fingerprint_patterns = <<RuleMikrotik>>
  /\ pc = "idle"
  /\ host_data = NoHost
  /\ vendor = DEFAULT_VENDOR
  /\ role_slug = DEFAULT_ROLE_SLUG
  /\ device_type = DEFAULT_DEVICE_TYPE
  /\ cn = <<>>
  /\ page_txt = <<>>
  /\ matched = NoMatch
  /\ fetch_calls = 0
  /\ peer = NoPeer
  /\ fp = NoFp
  /\ nb \in InitialStores
  /\ next_id = FirstFreeId
  /\ ret = NoId
  /\ nb_log = "none"
  /\ call = NoCall
  /\ mpc = "prefix"
  /\ \E todo \in DistinctSeqs(MainHosts, MaxHosts), update_existing \in BOOLEAN :
       loc = [NoLoc EXCEPT !.todo = todo, !.update_existing = update_existing]

\* line 50; the scan of line 53 reports loc.todo
MainPrefix ==
  /\ mpc = "prefix"
  /\ EnsurePrefixCall("10.0.0.0/24", SiteId, loc.update_existing)
  /\ Called("ensure_prefix", loc.update_existing)
  /\ mpc' = "loop"
  /\ UNCHANGED <<engine_vars, loc>>

\* line 56: the next host, or the end of the loop. The classification of the
\* host before is not read again: line 67 rebinds fp before its next use.
MainLoop ==
  /\ mpc = "loop"
  /\ IF loc.todo = <<>>
     THEN mpc' = "finished" /\ UNCHANGED loc
     ELSE /\ mpc' = "platform"
          /\ loc' = [NoLoc EXCEPT !.update_existing = loc.update_existing,
                                  !.todo = Tail(loc.todo),
                                  !.host = Head(loc.todo)]
  /\ fp' = NoFp
  /\ UNCHANGED <<rule_store, pc, host_data, vendor, role_slug, device_type, cn,
                 page_txt, matched, fetch_calls, peer,
                 nb_vars, call>>

\* line 62
MainPlatform ==
  /\ mpc = "platform"
  /\ EnsurePlatformCall(PlatformOf(loc.host), TRUE)
  /\ Called("ensure_platform", TRUE)
  /\ loc' = [loc EXCEPT !.platform_obj = ret']
  /\ mpc' = "tenant"
  /\ UNCHANGED engine_vars

\* line 64
MainTenant ==
  /\ mpc = "tenant"
  /\ \E name \in TenantNames : EnsureTenantCall(name, TRUE)
  /\ Called("ensure_tenant", TRUE)
  /\ loc' = [loc EXCEPT !.tenant_obj = ret']
  /\ mpc' = "fingerprint"
  /\ UNCHANGED engine_vars

\* main() going on to line 75 without classifying the host
MainFingerprintSkipped ==
  /\ mpc = "fingerprint"
  /\ mpc' = "manufacturer"
  /\ UNCHANGED <<engine_vars, nb_vars, call, loc>>

\* line 67: fingerprint_host is entered with host_info
MainFingerprint ==
  /\ mpc = "fingerprint"
  /\ pc = "idle"
  /\ host_data' = loc.host
  /\ vendor' = DEFAULT_VENDOR
  /\ role_slug' = DEFAULT_ROLE_SLUG
  /\ device_type' = DEFAULT_DEVICE_TYPE
  /\ cn' = <<>>
  /\ page_txt' = <<>>
  /\ matched' = NoMatch
  /\ fetch_calls' = 0
  /\ peer' = NoPeer
  /\ fp' = NoFp
  /\ pc' = "oui"
  /\ mpc' = "classifying"
  /\ UNCHANGED <<rule_store, nb_vars, call, loc>>

\* lines 67-70: fingerprint_host returned fp, or its exception leaves main()
MainClassified ==
  /\ mpc = "classifying"
  /\ pc \in {"done", "raised"}
  /\ mpc' = IF pc = "raised" THEN "raised" ELSE "manufacturer"
  /\ pc' = "idle"
  /\ host_data' = NoHost
  /\ vendor' = DEFAULT_VENDOR
  /\ role_slug' = DEFAULT_ROLE_SLUG
  /\ device_type' = DEFAULT_DEVICE_TYPE
  /\ cn' = <<>>
  /\ page_txt' = <<>>
  /\ matched' = NoMatch
  /\ fetch_calls' = 0
  /\ peer' = NoPeer
  /\ UNCHANGED <<rule_store, fp, nb_vars, call, loc>>

\* mutant: line 79 reached without the test of line 78
MainManufacturerUngated ==
  /\ mpc = "manufacturer"
  /\ EnsureManufacturerCall(fp.vendor, loc.update_existing)
  /\ Called("ensure_manufacturer", loc.update_existing)
  /\ loc' = [loc EXCEPT !.mfr_obj = ret']
  /\ mpc' = "device_type"
  /\ UNCHANGED engine_vars

\* lines 75-78
MainManufacturer ==
  /\ mpc = "manufacturer"
  /\ EnsureManufacturerCall(fp.vendor, loc.update_existing)
  /\ Called("ensure_manufacturer", loc.update_existing)
  /\ loc' = [loc EXCEPT !.mfr_obj = ret']
  /\ mpc' = IF ret' # NoId THEN "device_type" ELSE "role"
  /\ UNCHANGED engine_vars

\* line 79
MainDeviceType ==
  /\ mpc = "device_type"
  /\ EnsureDeviceTypeCall(fp.device_type, loc.mfr_obj, loc.update_existing)
  /\ Called("ensure_device_type", loc.update_existing)
  /\ loc' = [loc EXCEPT !.dev_type_obj = ret']
  /\ mpc' = "role"
  /\ UNCHANGED engine_vars

\* lines 81-86 and 96-98
MainRole ==
  /\ mpc = "role"
  /\ EnsureDeviceRoleCall(fp.role_slug, loc.update_existing)
  /\ Called("ensure_device_role", loc.update_existing)
  /\ loc' = [loc EXCEPT !.role_obj = ret']
  /\ mpc' = IF ret' # NoId /\ loc.dev_type_obj # NoId THEN "device" ELSE "loop"
  /\ UNCHANGED engine_vars

\* lines 87-101: platform_obj.id and tenant_obj.id are evaluated before the call
\* and raise AttributeError on None
MainDevice ==
  /\ mpc = "device"
  /\ IF loc.platform_obj = NoId \/ loc.tenant_obj = NoId
     THEN /\ mpc' = "attribute_error"
          /\ UNCHANGED <<nb_vars, call, loc>>
     ELSE /\ EnsureDeviceCall(HostName(loc.host), loc.role_obj, loc.dev_type_obj,
                              SiteId, loc.platform_obj, loc.tenant_obj,
                              loc.update_existing)
          /\ Called("ensure_device", loc.update_existing)
          /\ loc' = [loc EXCEPT !.device_obj = ret']
          /\ mpc' = IF ret' # NoId THEN "ip" ELSE "loop"
  /\ UNCHANGED engine_vars

\* lines 104-109
MainIp ==
  /\ mpc = "ip"
  /\ EnsureIpCall(IpStr(loc.host.ip_addr), loc.update_existing)
  /\ Called("ensure_ip", loc.update_existing)
  /\ loc' = [loc EXCEPT !.ip_obj = ret', !.port_idx = 1]
  /\ mpc' = IF ret' = NoId THEN "loop"
            ELSE IF loc.host.open_ports = <<>> THEN "interface" ELSE "services"
  /\ UNCHANGED engine_vars

\* lines 109-110: one turn of the loop over open_ports
MainService ==
  /\ mpc = "services"
  /\ EnsureServiceCall(loc.device_obj, loc.ip_obj, loc.host.open_ports[loc.port_idx],
                       "tcp", TRUE)
  /\ Called("ensure_service", TRUE)
  /\ loc' = [loc EXCEPT !.port_idx = @ + 1]
  /\ mpc' = IF loc.port_idx < Len(loc.host.open_ports) THEN "services" ELSE "interface"
  /\ UNCHANGED engine_vars

\* line 113
MainInterface ==
  /\ mpc = "interface"
  /\ EnsureInterfaceCall(loc.device_obj, "eth0", loc.host.mac_addr, loc.update_existing)
  /\ Called("ensure_interface", loc.update_existing)
  /\ loc' = [loc EXCEPT !.iface_obj = ret']
  /\ mpc' = "assign"
  /\ UNCHANGED engine_vars

\* line 116
MainAssign ==
  /\ mpc = "assign"
  /\ AssignIpToInterfaceCall(loc.ip_obj, loc.iface_obj)
  /\ Called("assign_ip_to_interface", FALSE)
  /\ mpc' = "primary"
  /\ UNCHANGED <<engine_vars, loc>>

\* line 119
MainPrimary ==
  /\ mpc = "primary"
  /\ SetPrimaryIp4Call(loc.device_obj, loc.ip_obj)
  /\ Called("set_primary_ip4", FALSE)
  /\ mpc' = "loop"
  /\ UNCHANGED <<engine_vars, loc>>

NextMain ==
  \/ MainPrefix
  \/ MainLoop
  \/ MainPlatform
  \/ MainTenant
  \/ MainFingerprint
  \/ OuiStep
  \/ PortStep
  \/ FetchCertAndPage
  \/ SkipTls
  \/ RegexStep
  \/ OsStep
  \/ Return
  \/ MainClassified
  \/ MainManufacturer
  \/ MainDeviceType
  \/ MainRole
  \/ MainDevice
  \/ MainIp
  \/ MainService
  \/ MainInterface
  \/ MainAssign
  \/ MainPrimary

SpecMain == InitMain /\ [][NextMain]_vars

\* ================================================================= claims
Returned == pc = "done"
OpenPorts == host_data.open_ports
Has443 == 443 \in Range(OpenPorts)
MacPrefix == Upper(Slice(host_data.mac_addr, 8))
Combined == cn \o <<" ">> \o page_txt
AfterRegex == fetch_calls = 1 /\ pc \in {"os", "ret", "done"}

\* position in open_ports of the first port that is a key of port_roles, 0 if none
FirstKeyedIndex ==
  IF \E i \in 1..Len(OpenPorts) : ToString(OpenPorts[i]) \in DOMAIN port_roles
  THEN CHOOSE i \in 1..Len(OpenPorts) :
         /\ ToString(OpenPorts[i]) \in DOMAIN port_roles
         /\ \A j \in 1..(i - 1) : ToString(OpenPorts[j]) \notin DOMAIN port_roles
  ELSE 0

\* C1: fingerprint_host never raises to its caller and every record it returns
\* has vendor, role_slug and device_type set (none of them is None), for every
\* observation and every loaded rule store, malformed entries included.
C1_TotalNonNull ==
  /\ pc # "raised"
  /\ Returned => fp.vendor # None /\ fp.role_slug # None /\ fp.device_type # None

C3_FirstPortValues ==
  (Returned /\ FirstKeyedIndex # 0) =>
    LET e == port_roles[ToString(OpenPorts[FirstKeyedIndex])]
    IN /\ e.role # Missing => fp.role_slug = e.role
       /\ e.device_type # Missing => fp.device_type = e.device_type

\* C3 amended: when some open port is a key of port_roles, the returned role_slug
\* is the role mapped to the first such port and the returned device_type is the
\* device_type mapped to it (a key the entry lacks counts as the default), except
\* that a mapped device_type equal to the default "Unknown" is replaced by the
\* device_type of a fingerprint match when the evidence step ran and matched;
\* a later keyed port never contributes.
C3_FirstPortWins ==
  (Returned /\ FirstKeyedIndex # 0) =>
    LET e == port_roles[ToString(OpenPorts[FirstKeyedIndex])]
        mapped_role == IF e.role = Missing THEN DEFAULT_ROLE_SLUG ELSE e.role
        mapped_dt == IF e.device_type = Missing THEN DEFAULT_DEVICE_TYPE
                     ELSE e.device_type
    IN /\ fp.role_slug = mapped_role
       /\ fp.device_type =
            IF mapped_dt = DEFAULT_DEVICE_TYPE /\ fetch_calls = 1
               /\ Truthy(matched.device_type)
            THEN matched.device_type ELSE mapped_dt

\* C3 witness: two keyed ports with different entries, the first one decided
C3_Witness ==
  /\ Returned
  /\ \E i, j \in 1..Len(OpenPorts) :
       /\ i < j
       /\ ToString(OpenPorts[i]) \in DOMAIN port_roles
       /\ ToString(OpenPorts[j]) \in DOMAIN port_roles
       /\ port_roles[ToString(OpenPorts[j])].isdict
       /\ Truthy(port_roles[ToString(OpenPorts[j])].role)
       /\ fp.role_slug = port_roles[ToString(OpenPorts[i])].role
       /\ fp.role_slug # port_roles[ToString(OpenPorts[j])].role

\* C4: _fetch_cert_and_page is invoked at most once per call, only with 443 in
\* open_ports, and only while vendor or device_type is still at its default
\* (in pc = "regex" the locals still hold the values left by the port step).
C4_FetchOnlyWhenNeeded ==
  /\ fetch_calls <= 1
  /\ fetch_calls > 0 => Has443
  /\ pc = "regex" => (vendor = DEFAULT_VENDOR \/ device_type = DEFAULT_DEVICE_TYPE)
  /\ (pc \in {"os", "ret", "done"} /\ ~Has443) => fetch_calls = 0

\* C4 witness: 443 open, OUI and port step resolved both fields, no fetch made
C4_Witness ==
  /\ Returned
  /\ Has443
  /\ fetch_calls = 0
  /\ fp.vendor # DEFAULT_VENDOR
  /\ fp.device_type # DEFAULT_DEVICE_TYPE

\* C5: the TLS/page refinement step leaves a non-default vendor and a
\* non-default device_type unchanged and never changes role_slug.
C5_RefinementOnlyFillsDefaults ==
  [][pc = "regex" =>
       /\ vendor # DEFAULT_VENDOR => vendor' = vendor
       /\ device_type # DEFAULT_DEVICE_TYPE => device_type' = device_type
       /\ role_slug' = role_slug]_vars

\* C5 witness (scenario B): no MAC, ports [443], CN "mk", a match:
\* vendor and device_type are filled from the rule, role_slug stays default
C5_Witness ==
  /\ Returned
  /\ host_data.mac_addr = NoMac
  /\ OpenPorts = <<443>>
  /\ cn = <<"m", "k">>
  /\ Truthy(matched.vendor)
  /\ fp = [vendor |-> matched.vendor, role_slug |-> DEFAULT_ROLE_SLUG,
           device_type |-> matched.device_type]

\* the rule's pattern is a valid regex that re.search finds in the combined text
PatternFound(rule) ==
  /\ TruthySeq(rule.regex)
  /\ RegexValid(rule.regex)
  /\ ReSearch(rule.regex, Combined)

\* the rule has a non-empty regex, vendor and device_type
WellFormed(rule) ==
  TruthySeq(rule.regex) /\ Truthy(rule.vendor) /\ Truthy(rule.device_type)

\* C6 as written: the result of fingerprint matching is the vendor and
\* device_type of the first rule (in list order) whose pattern matches the
\* combined text, and absent when no rule's pattern matches.
C6_FirstPatternMatch ==
  AfterRegex =>
    LET hits == {i \in 1..Len(fingerprint_patterns) :
                   PatternFound(fingerprint_patterns[i])}
    IN IF hits = {} THEN matched = NoMatch
       ELSE LET first == CHOOSE i \in hits : \A j \in hits : i <= j
            IN /\ matched.vendor = DictGet(fingerprint_patterns[first], "vendor", None)
               /\ matched.device_type =
                    DictGet(fingerprint_patterns[first], "device_type", None)

\* C6 amended: when the combined text is not blank, the result is the vendor and
\* device_type of the first rule, in list order, that has a non-empty regex,
\* vendor and device_type and whose pattern matches the text (rules lacking a
\* field are skipped); it is absent when there is no such rule or the text is
\* blank.
C6_FirstWellFormedMatch ==
  AfterRegex =>
    LET hits == {i \in 1..Len(fingerprint_patterns) :
                   /\ WellFormed(fingerprint_patterns[i])
                   /\ PatternFound(fingerprint_patterns[i])}
    IN IF hits = {} \/ Strip(Combined) = <<>> THEN matched = NoMatch
       ELSE LET first == CHOOSE i \in hits : \A j \in hits : i <= j
            IN /\ matched.vendor = fingerprint_patterns[first].vendor
               /\ matched.device_type = fingerprint_patterns[first].device_type

\* C6 witness (scenario D): two well-formed rules match, the first is applied
C6_Witness ==
  /\ AfterRegex
  /\ Len(fingerprint_patterns) >= 2
  /\ WellFormed(fingerprint_patterns[1]) /\ PatternFound(fingerprint_patterns[1])
  /\ WellFormed(fingerprint_patterns[2]) /\ PatternFound(fingerprint_patterns[2])
  /\ matched.vendor = fingerprint_patterns[1].vendor
  /\ matched.vendor # fingerprint_patterns[2].vendor

\* C7: a well-formed rule whose pattern matches the (non-blank) evidence text
\* when letter case is ignored yields a match.
C7_CaseInsensitiveMatch ==
  (/\ AfterRegex
   /\ Strip(Combined) # <<>>
   /\ \E i \in 1..Len(fingerprint_patterns) :
        LET rule == fingerprint_patterns[i]
        IN /\ WellFormed(rule)
           /\ RegexValid(rule.regex)
           /\ ReSearch(Lower(rule.regex), Lower(Combined)))
    => Truthy(matched.vendor)

\* C8: no field of a returned classification is the empty string.
C8_NoEmptyField ==
  Returned => fp.vendor # "" /\ fp.role_slug # "" /\ fp.device_type # ""

\* C9: with no MAC, no open port that is a key of port_roles, and 443 not open,
\* the returned classification is exactly the all-default one.
C9_AllDefault ==
  (/\ Returned
   /\ host_data.mac_addr = NoMac
   /\ \A i \in 1..Len(OpenPorts) : ToString(OpenPorts[i]) \notin DOMAIN port_roles
   /\ ~Has443)
    => fp = [vendor |-> DEFAULT_VENDOR, role_slug |-> DEFAULT_ROLE_SLUG,
             device_type |-> DEFAULT_DEVICE_TYPE]

\* C9 witness: no MAC, one open port outside port_roles, an OS guess present
C9_Witness ==
  /\ Returned
  /\ host_data.mac_addr = NoMac
  /\ OpenPorts = <<161>>
  /\ host_data.os_guess # None
  /\ fp = [vendor |-> DEFAULT_VENDOR, role_slug |-> DEFAULT_ROLE_SLUG,
           device_type |-> DEFAULT_DEVICE_TYPE]

C11_EnsureFailureNonFatal == mpc # "attribute_error"

\* positions of main() at which the next step issues a NetBoxManager call for
\* the current host: those that take nothing from the classification, and
\* those that use it or come after a call that does
EarlyCallPcs == {"platform", "tenant"}
LateCallPcs ==
  {"manufacturer", "device_type", "role", "device", "ip", "services", "interface",
   "assign", "primary"}
Classified == fp # NoFp /\ pc = "idle"

\* C12 as stated: every step of main() that issues a NetBoxManager call for a
\* host is taken after fingerprint_host has returned for that host.
C12_ClassifiedBeforeAnyCall ==
  [][(mpc \in EarlyCallPcs \cup LateCallPcs /\ mpc' # "attribute_error")
       => Classified]_vars

\* C12 amended: every step of main() that issues a NetBoxManager call using the
\* classification or following such a call (manufacturer, device type, role,
\* device, IP, service, interface, assignment, primary IP) is taken after
\* fingerprint_host has returned for that host; ensure_platform and
\* ensure_tenant are issued before it is entered.
C12_ClassifiedBeforeDependentCall ==
  [][/\ (mpc \in LateCallPcs /\ mpc' # "attribute_error") => Classified
     /\ mpc \in EarlyCallPcs => ~Classified]_vars

\* C12 witness: ensure_manufacturer has been issued for a classified host whose
\* platform and tenant were resolved before
C12_Witness ==
  /\ mpc \in {"device_type", "role"}
  /\ call.op = "ensure_manufacturer"
  /\ fp.vendor = "Acme"
  /\ loc.platform_obj # NoId
  /\ loc.tenant_obj # NoId

\* C13: once _fetch_cert_and_page has been called, each of the two fetches was
\* attempted exactly once whatever the other answered, each piece of the pair
\* is the lowercased answer of its own fetch or "" when that fetch failed, the
\* call went on to _regex_fingerprint without raising, and when both fetches
\* failed no rule was tried: nothing matched and nothing was raised.
C13_FetchesIndependent ==
  fetch_calls >= 1 =>
    /\ peer.cert_tries = 1
    /\ peer.page_tries = 1
    /\ cn = (IF peer.cert.ok THEN Lower(peer.cert.text) ELSE <<>>)
    /\ page_txt = (IF peer.page.ok THEN Lower(peer.page.text) ELSE <<>>)
    /\ (~peer.cert.ok /\ ~peer.page.ok) =>
         /\ cn = <<>> /\ page_txt = <<>>
         /\ pc # "raised"
         /\ matched = NoMatch

\* C13 witness: the certificate fetch failed, the page fetch succeeded and its
\* text decided the classification
C13_Witness ==
  /\ Returned
  /\ fetch_calls = 1
  /\ ~peer.cert.ok
  /\ peer.page.ok
  /\ cn = <<>>
  /\ page_txt = <<"o", "s">>
  /\ \E i \in 1..Len(fingerprint_patterns) : fingerprint_patterns[i] = RuleSpace
  /\ fp.vendor = "Ubiquiti"

\* os_guess as the scanner can report it (None or a name) and the empty text
OsGuessUniverse == OsGuesses \cup {""}

FoundObject(endpoint) == CHOOSE o \in nb[endpoint] : o.id = call.obj

\* the last call had update set, found an existing object and neither of its
\* requests to NetBox failed
UpdatingCallSucceeded == call.update /\ call.obj # NoId /\ nb_log \in {"found", "updated"}

\* C14: after a successful call with update set that found an existing object,
\* the object has the requested values: a device the requested role, device
\* type, platform and tenant, an interface the requested MAC address (in any
\* letter case), a service the requested port list and protocol and the IP
\* among its addresses, whatever its fields held before, unset included.
C14_UpdateReachesRequested ==
  UpdatingCallSucceeded =>
    /\ call.op = "ensure_device" =>
         LET d == FoundObject("devices")
         IN /\ d.role = call.role_id
            /\ d.device_type = call.device_type_id
            /\ d.platform = call.platform_id
            /\ d.tenant = call.tenant_id
    /\ (call.op = "ensure_interface" /\ TruthySeq(call.mac_address)) =>
         Lower(FoundObject("interfaces").mac_address) = Lower(call.mac_address)
    /\ call.op = "ensure_service" =>
         LET service == FoundObject("services")
         IN /\ service.ports = <<call.port>>
            /\ service.protocol = call.protocol
            /\ call.ip_id # NoId => call.ip_id \in service.ipaddresses

\* C16: main() stands before ensure_device_type only with a manufacturer NetBox
\* holds, before ensure_device only with a role and a device type it holds,
\* before ensure_ip only with a device it holds, and before ensure_service,
\* ensure_interface, assign_ip_to_interface and set_primary_ip4 only with a
\* device and an IP address it holds.
C16_DependentStepsGated ==
  /\ mpc = "device_type" => loc.mfr_obj \in Ids(nb.manufacturers)
  /\ mpc = "device" =>
       /\ loc.role_obj \in Ids(nb.device_roles)
       /\ loc.dev_type_obj \in Ids(nb.device_types)
  /\ mpc = "ip" => loc.device_obj \in Ids(nb.devices)
  /\ mpc \in {"services", "interface", "assign", "primary"} =>
       /\ loc.device_obj \in Ids(nb.devices)
       /\ loc.ip_obj \in Ids(nb.ip_addresses)

\* C16 witness: the second host of a scan got its device and IP, its interface
\* could not be created, and assign_ip_to_interface was called all the same
C16_Witness ==
  /\ mpc = "primary"
  /\ call.op = "assign_ip_to_interface"
  /\ loc.todo = <<>>
  /\ loc.host = HostTls
  /\ loc.device_obj # NoId
  /\ loc.ip_obj # NoId
  /\ loc.iface_obj = NoId
  /\ Cardinality(nb.devices) = 2

====
